---- MODULE Spec2Model ----
(***************************************************************************)
(* Model of src/src/components/ImprovedAddProviderForm.tsx: the provider   *)
(* form (ImprovedAddProviderForm) and the avatar upload widget             *)
(* (ProjectsPageAvatarUpload) embedded in it.                              *)
(*                                                                         *)
(* A JavaScript string that the code trims, parses or measures is a        *)
(* sequence of one-character strings (<<" ", "a">>); a message that the    *)
(* code only stores and shows is a TLA+ string.  The JavaScript null is    *)
(* Null (for texts and data URLs), NoMsg (for messages) and NoFile (for    *)
(* File objects), three values that no text, message or file equals.       *)
(* One step of the model is one React event handler run to completion,     *)
(* with the state updates it queued applied in order.                      *)
(***************************************************************************)
EXTENDS Integers, Sequences, FiniteSets, TLC

----------------------------------------------------------------------------
(* Values *)

Null == <<"null">>
NoMsg == "null"
NoFile == [type |-> "null", size |-> 0, content |-> "null"]

WhiteSpace == {" "}
Digits == {"0", "1", "2", "3", "4", "5", "6", "7", "8", "9"}

DigitValue(c) ==
  CASE c = "0" -> 0 [] c = "1" -> 1 [] c = "2" -> 2 [] c = "3" -> 3
    [] c = "4" -> 4 [] c = "5" -> 5 [] c = "6" -> 6 [] c = "7" -> 7
    [] c = "8" -> 8 [] c = "9" -> 9

Kinds == {"talent", "team", "agency"}
WorkLocations == {"remote", "on-site", "hybrid", "flexible"}

MAX_SERVICES == 10

ALLOWED_TYPES == {"image/jpeg", "image/png", "image/gif", "image/webp"}
MAX_SIZE == 5 * 1024 * 1024

(* JavaScript truthiness of a string-or-null value. *)
Truthy(s) == s # Null /\ s # <<>>
TruthyMsg(m) == m # NoMsg /\ m # ""

----------------------------------------------------------------------------
(* String.prototype.trim: drops the white space at both ends (of the      *)
(* characters the model types, the space is the white space).             *)
Trim(s) ==
  LET keep == {i \in 1..Len(s) : s[i] \notin WhiteSpace}
  IN IF keep = {} THEN <<>>
     ELSE LET lo == CHOOSE i \in keep : \A j \in keep : i <= j
              hi == CHOOSE i \in keep : \A j \in keep : j <= i
          IN SubSeq(s, lo, hi)

(* Number(text), for texts over white space, digits, ".", "+", "-" and     *)
(* letters other than those of "Infinity", exponents and radix prefixes.   *)
(* A number is num / 10^scale, in lowest scale; NaN is NaN.                *)
NaN == [nan |-> TRUE, num |-> 0, scale |-> 0]

RECURSIVE DecimalValue(_)
DecimalValue(ds) ==
  IF ds = <<>> THEN 0
  ELSE 10 * DecimalValue(SubSeq(ds, 1, Len(ds) - 1)) + DigitValue(ds[Len(ds)])

RECURSIVE Normalize(_, _)
Normalize(n, sc) ==
  IF sc > 0 /\ n % 10 = 0 THEN Normalize(n \div 10, sc - 1)
  ELSE [nan |-> FALSE, num |-> n, scale |-> sc]

Number(s) ==
  LET t == Trim(s)
  IN IF t = <<>> THEN [nan |-> FALSE, num |-> 0, scale |-> 0]
     ELSE LET signed == t[1] \in {"+", "-"}
              body == IF signed THEN Tail(t) ELSE t
              dots == {i \in 1..Len(body) : body[i] = "."}
              digs == {i \in 1..Len(body) : body[i] \in Digits}
          IN IF /\ digs # {}
                /\ Cardinality(dots) <= 1
                /\ dots \cup digs = 1..Len(body)
             THEN LET dot == IF dots = {} THEN Len(body) ELSE CHOOSE i \in dots : TRUE
                      mag == DecimalValue(SelectSeq(body, LAMBDA c : c \in Digits))
                  IN Normalize(IF t[1] = "-" THEN 0 - mag ELSE mag, Len(body) - dot)
             ELSE NaN

(* x <= 0 and x < 0 of JavaScript: false when x is NaN. *)
LessEqZero(x) == ~x.nan /\ x.num <= 0
LessZero(x) == ~x.nan /\ x.num < 0

----------------------------------------------------------------------------
(* State *)

VARIABLES
  kind, name, titleOrType, workLocation, optionalLocation, hourlyRate,
  startingRate, teamSize, description, services, serviceInput,
  avatarFile, avatarPreview, error, validationErrors,   \* the form's useState cells
  preview, uploadError, readers,     \* the widget's preview and error; its FileReaders in flight
  lastOp, calls, latest, reported,   \* history: the last handler, its onCreate calls,
                                     \* the last file whose read was started, the last
                                     \* arguments of onFileSelect,
  removals                           \* and the number of services removed so far

textFields == <<name, titleOrType, workLocation, optionalLocation, hourlyRate,
                startingRate, teamSize, description>>
serviceFields == <<services, serviceInput>>
avatarFields == <<avatarFile, avatarPreview>>
formFields == <<kind, textFields, serviceFields, avatarFields>>
formVars == <<formFields, error, validationErrors>>
widgetVars == <<preview, uploadError, readers>>
uploadHistory == <<latest, reported>>
history == <<uploadHistory, removals>>
vars == <<formVars, widgetVars, lastOp, calls, uploadHistory, removals>>

NoErrors == [k \in {} |-> ""]

Init ==
  /\ kind = "talent"
  /\ name = <<>>
  /\ titleOrType = <<>>
  /\ workLocation = "remote"
  /\ optionalLocation = <<>>
  /\ hourlyRate = <<>>
  /\ startingRate = <<>>
  /\ teamSize = <<>>
  /\ description = <<>>
  /\ services = <<>>
  /\ serviceInput = <<>>
  /\ avatarFile = NoFile
  /\ avatarPreview = Null
  /\ error = NoMsg
  /\ validationErrors = NoErrors
  /\ preview = Null
  /\ uploadError = NoMsg
  /\ readers = <<>>
  /\ lastOp = "init"
  /\ calls = <<>>
  /\ latest = NoFile
  /\ reported = [file |-> NoFile, preview |-> Null]
  /\ removals = 0

----------------------------------------------------------------------------
(* The form controller *)

(* Mutant: the name is tested without trim(). *)
validateFormWithoutTrim ==
  LET failed ==
        {k \in {"name"} : name = <<>>}
        \cup {k \in {"titleOrType"} : Trim(titleOrType) = <<>>}
        \cup {k \in {"description"} : Trim(description) = <<>>}
        \cup {k \in {"services"} : Len(services) = 0}
        \cup (IF kind = "talent"
              THEN {k \in {"hourlyRate"} :
                      hourlyRate = <<>> \/ LessEqZero(Number(hourlyRate))}
              ELSE {k \in {"startingRate"} :
                      startingRate = <<>> \/ LessZero(Number(startingRate))}
                   \cup {k \in {"teamSize"} :
                      teamSize = <<>> \/ LessEqZero(Number(teamSize))})
      message(k) ==
        CASE k = "name" -> "Name is required"
          [] k = "titleOrType" ->
               IF kind = "talent" THEN "Title is required" ELSE "Type/Role is required"
          [] k = "description" -> "Description is required"
          [] k = "services" -> "Add at least one service"
          [] k = "hourlyRate" -> "Valid hourly rate is required"
          [] k = "startingRate" -> "Valid starting rate is required"
          [] k = "teamSize" -> "Valid team size is required"
  IN [k \in failed |-> message(k)]

(* The errors object validateForm builds and stores. *)
validateForm ==
  LET failed ==
        {k \in {"name"} : Trim(name) = <<>>}
        \cup {k \in {"titleOrType"} : Trim(titleOrType) = <<>>}
        \cup {k \in {"description"} : Trim(description) = <<>>}
        \cup {k \in {"services"} : Len(services) = 0}
        \cup (IF kind = "talent"
              THEN {k \in {"hourlyRate"} :
                      hourlyRate = <<>> \/ LessEqZero(Number(hourlyRate))}
              ELSE {k \in {"startingRate"} :
                      startingRate = <<>> \/ LessZero(Number(startingRate))}
                   \cup {k \in {"teamSize"} :
                      teamSize = <<>> \/ LessEqZero(Number(teamSize))})
      message(k) ==
        CASE k = "name" -> "Name is required"
          [] k = "titleOrType" ->
               IF kind = "talent" THEN "Title is required" ELSE "Type/Role is required"
          [] k = "description" -> "Description is required"
          [] k = "services" -> "Add at least one service"
          [] k = "hourlyRate" -> "Valid hourly rate is required"
          [] k = "startingRate" -> "Valid starting rate is required"
          [] k = "teamSize" -> "Valid team size is required"
  IN [k \in failed |-> message(k)]

(* Mutant: the setter blanks every message instead of the one of f. *)
ClearFieldErrorAll(f) ==
  IF f \in DOMAIN validationErrors /\ validationErrors[f] # ""
  THEN [k \in DOMAIN validationErrors |-> ""]
  ELSE validationErrors

(* if (validationErrors.f) setValidationErrors({ ...validationErrors, f: '' }) *)
ClearFieldError(f) ==
  IF f \in DOMAIN validationErrors /\ validationErrors[f] # ""
  THEN [validationErrors EXCEPT ![f] = ""]
  ELSE validationErrors

FieldStep ==
  /\ lastOp' = "setField"
  /\ calls' = <<>>
  /\ UNCHANGED <<kind, serviceFields, avatarFields, error, widgetVars, history>>

(* Mutant: the setValidationErrors({}) of the kind buttons is missing. *)
KindClickKeepsErrors(type) ==
  /\ kind' = type
  /\ lastOp' = "setKind"
  /\ calls' = <<>>
  /\ UNCHANGED <<textFields, serviceFields, avatarFields, error, validationErrors,
                 widgetVars, history>>

KindClick(type) ==
  /\ kind' = type
  /\ validationErrors' = NoErrors
  /\ lastOp' = "setKind"
  /\ calls' = <<>>
  /\ UNCHANGED <<textFields, serviceFields, avatarFields, error, widgetVars, history>>

NameChange(v) ==
  /\ name' = v
  /\ validationErrors' = ClearFieldError("name")
  /\ FieldStep
  /\ UNCHANGED <<titleOrType, workLocation, optionalLocation, hourlyRate,
                 startingRate, teamSize, description>>

TitleOrTypeChange(v) ==
  /\ titleOrType' = v
  /\ validationErrors' = ClearFieldError("titleOrType")
  /\ FieldStep
  /\ UNCHANGED <<name, workLocation, optionalLocation, hourlyRate,
                 startingRate, teamSize, description>>

WorkLocationClick(loc) ==
  /\ workLocation' = loc
  /\ FieldStep
  /\ UNCHANGED <<name, titleOrType, optionalLocation, hourlyRate,
                 startingRate, teamSize, description, validationErrors>>

(* The location input is rendered for on-site and hybrid only. *)
OptionalLocationChange(v) ==
  /\ workLocation \in {"on-site", "hybrid"}
  /\ optionalLocation' = v
  /\ FieldStep
  /\ UNCHANGED <<name, titleOrType, workLocation, hourlyRate,
                 startingRate, teamSize, description, validationErrors>>

(* The hourly rate input is rendered for talent, the other two otherwise. *)
HourlyRateChange(v) ==
  /\ kind = "talent"
  /\ hourlyRate' = v
  /\ validationErrors' = ClearFieldError("hourlyRate")
  /\ FieldStep
  /\ UNCHANGED <<name, titleOrType, workLocation, optionalLocation,
                 startingRate, teamSize, description>>

StartingRateChange(v) ==
  /\ kind # "talent"
  /\ startingRate' = v
  /\ validationErrors' = ClearFieldError("startingRate")
  /\ FieldStep
  /\ UNCHANGED <<name, titleOrType, workLocation, optionalLocation,
                 hourlyRate, teamSize, description>>

TeamSizeChange(v) ==
  /\ kind # "talent"
  /\ teamSize' = v
  /\ validationErrors' = ClearFieldError("teamSize")
  /\ FieldStep
  /\ UNCHANGED <<name, titleOrType, workLocation, optionalLocation,
                 hourlyRate, startingRate, description>>

DescriptionChange(v) ==
  /\ description' = v
  /\ validationErrors' = ClearFieldError("description")
  /\ FieldStep
  /\ UNCHANGED <<name, titleOrType, workLocation, optionalLocation,
                 hourlyRate, startingRate, teamSize>>

ServiceInputChange(v) ==
  /\ serviceInput' = v
  /\ lastOp' = "setField"
  /\ calls' = <<>>
  /\ UNCHANGED <<kind, textFields, services, avatarFields, error, validationErrors,
                 widgetVars, history>>

Includes(list, x) == \E i \in 1..Len(list) : list[i] = x

(* Mutant: the limit is tested with <=. *)
handleAddServiceOffByOne ==
  LET trimmed == Trim(serviceInput)
  IN /\ IF trimmed # <<>> /\ ~Includes(services, trimmed) /\ Len(services) <= MAX_SERVICES
        THEN services' = Append(services, trimmed) /\ serviceInput' = <<>>
        ELSE UNCHANGED serviceFields
     /\ lastOp' = "addService"
     /\ calls' = <<>>
     /\ UNCHANGED <<kind, textFields, avatarFields, error, validationErrors,
                    widgetVars, history>>

(* Mutant: the setServiceInput('') stands after the if, not inside it. *)
handleAddServiceClearsInput ==
  LET trimmed == Trim(serviceInput)
  IN /\ IF trimmed # <<>> /\ ~Includes(services, trimmed) /\ Len(services) < MAX_SERVICES
        THEN services' = Append(services, trimmed)
        ELSE services' = services
     /\ serviceInput' = <<>>
     /\ lastOp' = "addService"
     /\ calls' = <<>>
     /\ UNCHANGED <<kind, textFields, avatarFields, error, validationErrors,
                    widgetVars, history>>

handleAddService ==
  LET trimmed == Trim(serviceInput)
  IN /\ IF trimmed # <<>> /\ ~Includes(services, trimmed) /\ Len(services) < MAX_SERVICES
        THEN services' = Append(services, trimmed) /\ serviceInput' = <<>>
        ELSE UNCHANGED serviceFields
     /\ lastOp' = "addService"
     /\ calls' = <<>>
     /\ UNCHANGED <<kind, textFields, avatarFields, error, validationErrors,
                    widgetVars, history>>

(* services.filter((_, i) => i !== index), index counted from 0 *)
FilterOut(list, index) ==
  LET keep == {i \in 1..Len(list) : i - 1 # index}
      F[i \in 0..Len(list)] ==
        IF i = 0 THEN <<>>
        ELSE IF i \in keep THEN Append(F[i - 1], list[i]) ELSE F[i - 1]
  IN F[Len(list)]

(* Mutant: the filter counts the positions from 1. *)
handleRemoveServiceOneBased(index) ==
  /\ services' = FilterOut(services, index - 1)
  /\ lastOp' = "removeService"
  /\ calls' = <<>>
  /\ UNCHANGED <<kind, textFields, serviceInput, avatarFields, error, validationErrors,
                 widgetVars, uploadHistory>>

(* The handler leaves the history variable removals to the specification *)
(* that runs it.                                                         *)
handleRemoveService(index) ==
  /\ services' = FilterOut(services, index)
  /\ lastOp' = "removeService"
  /\ calls' = <<>>
  /\ UNCHANGED <<kind, textFields, serviceInput, avatarFields, error, validationErrors,
                 widgetVars, uploadHistory>>

(* Mutant: the description is handed over without trim(). *)
BaseWithoutTrim ==
  LET optional == Trim(optionalLocation)
  IN [name |-> Trim(name),
      title_or_type |-> Trim(titleOrType),
      work_location |-> workLocation,
      optional_location |-> IF optional # <<>> THEN optional ELSE Null,
      description |-> description,
      avatar_file |-> avatarFile,
      services |-> services,
      status |-> "draft"]

Base ==
  LET optional == Trim(optionalLocation)
  IN [name |-> Trim(name),
      title_or_type |-> Trim(titleOrType),
      work_location |-> workLocation,
      optional_location |-> IF optional # <<>> THEN optional ELSE Null,
      description |-> Trim(description),
      avatar_file |-> avatarFile,
      services |-> services,
      status |-> "draft"]

(* Mutant: the second branch tests 'team' and the last one sets nothing. *)
providerWithoutElse ==
  IF kind = "talent"
  THEN Base @@ [hourly_rate |-> Number(hourlyRate)]
  ELSE IF kind = "team"
  THEN Base @@ [starting_rate |-> Number(startingRate),
                team_size |-> Number(teamSize)]
  ELSE Base

(* The object handleSubmit hands to onCreate. *)
provider ==
  IF kind = "talent"
  THEN Base @@ [hourly_rate |-> Number(hourlyRate)]
  ELSE IF kind = "teams"
  THEN Base @@ [starting_rate |-> Number(startingRate),
                team_size |-> Number(teamSize)]
  ELSE Base @@ [starting_rate |-> Number(startingRate),
                team_size |-> Number(teamSize)]

(* The fields handleSubmit resets after onCreate returned. *)
ResetAfterCreate ==
  /\ name' = <<>>
  /\ titleOrType' = <<>>
  /\ workLocation' = "remote"
  /\ optionalLocation' = <<>>
  /\ hourlyRate' = <<>>
  /\ startingRate' = <<>>
  /\ teamSize' = <<>>
  /\ description' = <<>>
  /\ services' = <<>>
  /\ serviceInput' = <<>>
  /\ avatarFile' = NoFile
  /\ avatarPreview' = Null
  /\ validationErrors' = NoErrors
  /\ UNCHANGED kind

(* What onCreate does is the caller's: it returns, or throws an Error with *)
(* a message, or throws a value that is no Error.                          *)
Returns == [thrown |-> FALSE, isError |-> FALSE, message |-> ""]
Throws(isError, message) == [thrown |-> TRUE, isError |-> isError, message |-> message]

(* handleSubmit from the construction of provider on: the call of onCreate, *)
(* then the reset, or the catch.                                            *)
CreateProfile(outcome) ==
  /\ calls' = <<[provider |-> provider, kind |-> kind]>>
  /\ IF ~outcome.thrown
     THEN /\ error' = NoMsg
          /\ ResetAfterCreate
          /\ lastOp' = "submit_ok"
     ELSE /\ error' = IF outcome.isError THEN outcome.message
                      ELSE "Failed to create profile"
          /\ validationErrors' = NoErrors
          /\ lastOp' = "submit_failed"
          /\ UNCHANGED formFields

(* Mutant: the return after a failed validateForm is missing. *)
handleSubmitWithoutReturn(outcome) ==
  /\ UNCHANGED <<widgetVars, history>>
  /\ CreateProfile(outcome)

handleSubmit(outcome) ==
  /\ UNCHANGED <<widgetVars, history>>
  /\ IF DOMAIN validateForm # {}
     THEN /\ error' = NoMsg
          /\ validationErrors' = validateForm
          /\ calls' = <<>>
          /\ lastOp' = "submit_invalid"
          /\ UNCHANGED formFields
     ELSE CreateProfile(outcome)

(* The Clear button.  Its handler calls setKind, setName and setTitleOrType *)
(* and then setCategory, which nothing in the file defines: the call throws *)
(* a ReferenceError, so the setters after it never run, and React applies   *)
(* the three updates already queued.                                        *)
ClearClick ==
  /\ kind' = "talent"
  /\ name' = <<>>
  /\ titleOrType' = <<>>
  /\ lastOp' = "clear"
  /\ calls' = <<>>
  /\ UNCHANGED <<workLocation, optionalLocation, hourlyRate, startingRate, teamSize,
                 description, serviceFields, avatarFields, error, validationErrors,
                 widgetVars, history>>

----------------------------------------------------------------------------
(* The upload widget *)

(* FileReader.readAsDataURL: the media type and the content of the file. *)
DataURL(file) == <<"data:", file.type, ";base64,", file.content>>

(* Mutant: the setAvatarPreview(preview) of onFileSelect is missing. *)
onFileSelectFileOnly(file, dataUrl) ==
  /\ avatarFile' = file
  /\ avatarPreview' = avatarPreview
  /\ reported' = [file |-> file, preview |-> dataUrl]

(* The onFileSelect the form passes to the widget. *)
onFileSelect(file, dataUrl) ==
  /\ avatarFile' = file
  /\ avatarPreview' = dataUrl
  /\ reported' = [file |-> file, preview |-> dataUrl]

MaxPending == 2

Accepted(file) == file.type \in ALLOWED_TYPES /\ ~(file.size > MAX_SIZE)

(* Mutant: the setError(null) at the top is missing. *)
handleFileKeepsError(file) ==
  /\ Accepted(file) => Len(readers) < MaxPending
  /\ uploadError' =
       IF file.type \notin ALLOWED_TYPES
       THEN "Please upload a valid image (JPEG, PNG, GIF, or WebP)"
       ELSE IF file.size > MAX_SIZE THEN "File size must be less than 5MB"
       ELSE uploadError
  /\ readers' = IF Accepted(file) THEN Append(readers, file) ELSE readers
  /\ latest' = IF Accepted(file) THEN file ELSE latest
  /\ lastOp' = "select"
  /\ calls' = <<>>
  /\ UNCHANGED <<formVars, preview, reported, removals>>

(* Mutant: the return after the size error is missing. *)
handleFileWithoutSizeReturn(file) ==
  /\ file.type \in ALLOWED_TYPES => Len(readers) < MaxPending
  /\ uploadError' =
       IF file.type \notin ALLOWED_TYPES
       THEN "Please upload a valid image (JPEG, PNG, GIF, or WebP)"
       ELSE IF file.size > MAX_SIZE THEN "File size must be less than 5MB"
       ELSE NoMsg
  /\ readers' = IF file.type \in ALLOWED_TYPES THEN Append(readers, file) ELSE readers
  /\ latest' = IF file.type \in ALLOWED_TYPES THEN file ELSE latest
  /\ lastOp' = "select"
  /\ calls' = <<>>
  /\ UNCHANGED <<formVars, preview, reported, removals>>

(* handleFile up to reader.readAsDataURL(file); the read completes later. *)
handleFile(file) ==
  /\ Accepted(file) => Len(readers) < MaxPending
  /\ uploadError' =
       IF file.type \notin ALLOWED_TYPES
       THEN "Please upload a valid image (JPEG, PNG, GIF, or WebP)"
       ELSE IF file.size > MAX_SIZE THEN "File size must be less than 5MB"
       ELSE NoMsg
  /\ readers' = IF Accepted(file) THEN Append(readers, file) ELSE readers
  /\ latest' = IF Accepted(file) THEN file ELSE latest
  /\ lastOp' = "select"
  /\ calls' = <<>>
  /\ UNCHANGED <<formVars, preview, reported, removals>>

(* reader.onload of the i-th read in flight, in the order they were started. *)
ReaderOnload(i) ==
  /\ i \in 1..Len(readers)
  /\ LET file == readers[i]
         dataUrl == DataURL(file)
     IN /\ preview' = dataUrl
        /\ onFileSelect(file, dataUrl)
  /\ readers' = SubSeq(readers, 1, i - 1) \o SubSeq(readers, i + 1, Len(readers))
  /\ lastOp' = "loaded"
  /\ calls' = <<>>
  /\ UNCHANGED <<kind, textFields, serviceFields, error, validationErrors,
                 uploadError, latest, removals>>

(* Mutant: the onFileSelect(null, null) of the Remove image button is missing. *)
RemoveImageClickWithoutCallback ==
  /\ Truthy(preview)
  /\ preview' = Null
  /\ latest' = NoFile
  /\ lastOp' = "remove"
  /\ calls' = <<>>
  /\ UNCHANGED <<formVars, uploadError, readers, reported, removals>>

(* The Remove image button, rendered while there is a preview.  The        *)
(* history variable latest starts afresh: no selection is awaited.         *)
RemoveImageClick ==
  /\ Truthy(preview)
  /\ preview' = Null
  /\ onFileSelect(NoFile, Null)
  /\ latest' = NoFile
  /\ lastOp' = "remove"
  /\ calls' = <<>>
  /\ UNCHANGED <<kind, textFields, serviceFields, error, validationErrors,
                 uploadError, readers, removals>>

----------------------------------------------------------------------------
(* Inputs *)

Outcomes == {Returns, Throws(TRUE, "Network down"), Throws(TRUE, ""), Throws(FALSE, "")}

Png == [type |-> "image/png", size |-> 100 * 1024, content |-> "P"]
Jpeg == [type |-> "image/jpeg", size |-> MAX_SIZE, content |-> "J"]
Pdf == [type |-> "application/pdf", size |-> 100 * 1024, content |-> "D"]
Huge == [type |-> "image/png", size |-> MAX_SIZE + 1, content |-> "H"]

----------------------------------------------------------------------------
(* Spec: the form and the widget together, every handler, from the state   *)
(* after construction.  The user edits the fields and picks an image while *)
(* the form shows no error (Editing), and then submits, clears or switches *)
(* the kind; a file is selected only when no read is in flight.  Edits    *)
(* under a displayed error (the first branch of ClearFieldError) are run   *)
(* by SpecFieldErrors.                                                    *)

Editing == validationErrors = NoErrors /\ error = NoMsg

Next ==
  \/ \E type \in Kinds : KindClick(type)
  \/ \E v \in {<<>>, <<" ", "a">>} : Editing /\ NameChange(v)
  \/ \E v \in {<<>>, <<"t">>} : Editing /\ TitleOrTypeChange(v)
  \/ \E loc \in WorkLocations : Editing /\ WorkLocationClick(loc)
  \/ \E v \in {<<>>, <<"k">>} : Editing /\ OptionalLocationChange(v)
  \/ \E v \in {<<>>, <<"5">>} : Editing /\ HourlyRateChange(v)
  \/ \E v \in {<<>>, <<"0">>} : Editing /\ StartingRateChange(v)
  \/ \E v \in {<<>>, <<"3">>} : Editing /\ TeamSizeChange(v)
  \/ \E v \in {<<>>, <<"d", " ">>} : Editing /\ DescriptionChange(v)
  \/ \E v \in {<<>>, <<" ", "s">>} : Editing /\ ServiceInputChange(v)
  \/ Editing /\ handleAddService
  \/ \E index \in 0..(Len(services) - 1) :
       Editing /\ handleRemoveService(index) /\ UNCHANGED removals
  \/ \E outcome \in Outcomes : handleSubmit(outcome)
  \/ ClearClick
  \/ \E file \in {Png, Pdf} : Editing /\ readers = <<>> /\ handleFile(file)
  \/ \E i \in 1..Len(readers) : ReaderOnload(i)
  \/ RemoveImageClick

Spec == Init /\ [][Next]_vars

----------------------------------------------------------------------------
(* Claims checked under Spec *)

SubmitOps == {"submit_invalid", "submit_ok", "submit_failed"}

FieldsAtDefault ==
  /\ kind = "talent"
  /\ workLocation = "remote"
  /\ name = <<>>
  /\ titleOrType = <<>>
  /\ optionalLocation = <<>>
  /\ hourlyRate = <<>>
  /\ startingRate = <<>>
  /\ teamSize = <<>>
  /\ description = <<>>
  /\ serviceInput = <<>>
  /\ services = <<>>
  /\ avatarFile = NoFile
  /\ avatarPreview = Null
  /\ validationErrors = NoErrors

(* C2: after a submit that passed validation and whose onCreate returned,   *)
(* every field is at its initial default, kind = talent included.          *)
C2_SubmitResetsEveryField == lastOp = "submit_ok" => FieldsAtDefault

(* C3: when submit passes validation and onCreate raises a failure, no     *)
(* field is reset and the general error message becomes non-empty.         *)
C3_FailureKeepsFieldsAndShowsError ==
  [][lastOp' = "submit_failed" => formFields' = formFields /\ TruthyMsg(error')]_vars

(* C4: when submit is invoked and validateForm yields at least one error,  *)
(* onCreate is not invoked, the computed errors become the validation      *)
(* errors, and no field value changes.                                     *)
C4_InvalidSubmitAborts ==
  [][(lastOp' \in SubmitOps /\ DOMAIN validateForm # {})
       => /\ calls' = <<>>
          /\ validationErrors' = validateForm
          /\ formFields' = formFields]_vars

C4_Witness ==
  /\ lastOp = "submit_invalid"
  /\ DOMAIN validationErrors = {"description"}
  /\ Trim(name) # <<>>
  /\ services # <<>>
  /\ avatarFile # NoFile
  /\ calls = <<>>

(* C5: the Clear button, from any state, leaves every field at its initial *)
(* default, the services empty, the avatar absent and no validation error. *)
C5_ClearResetsEveryField == lastOp = "clear" => FieldsAtDefault

PricingKeys == {"hourly_rate", "starting_rate", "team_size"}

(* C10: every draft handed to onCreate has the one pricing shape of the    *)
(* kind passed with it: hourly_rate alone for talent, starting_rate and    *)
(* team_size alone for team and agency.                                    *)
C10_PricingShapeFollowsKind ==
  \A i \in 1..Len(calls) :
    DOMAIN calls[i].provider \cap PricingKeys =
      IF calls[i].kind = "talent" THEN {"hourly_rate"}
      ELSE {"starting_rate", "team_size"}

C10_Witness ==
  /\ Len(calls) = 1
  /\ calls[1].kind = "agency"
  /\ DOMAIN calls[1].provider \cap PricingKeys = {"starting_rate", "team_size"}

----------------------------------------------------------------------------
(* SpecValidate: validateForm over the texts a pricing field can hold.     *)
(* The form is filled from the state after construction and submitted; the *)
(* fields validateForm does not read keep their defaults.  The pricing     *)
(* cells are strings: NumberInputTexts are the values an                   *)
(* <input type="number"> reports (a numeral, or "" for anything else),     *)
(* RateTexts adds texts that are no numerals.  SpecNumberInput is          *)
(* SpecValidate with the pricing fields over NumberInputTexts only.        *)

NumberInputTexts ==
  {<<>>, <<"0">>, <<"5">>, <<"-", "1">>, <<"2", ".", "5">>, <<"5", "0", "0", "0", "0">>}

RateTexts == NumberInputTexts \cup {<<" ">>, <<"a">>}

NextValidate ==
  \/ \E type \in Kinds : KindClick(type)
  \/ \E v \in {<<>>, <<" ">>, <<" ", "a", " ">>} : Editing /\ NameChange(v)
  \/ \E v \in {<<>>, <<"t">>} : Editing /\ TitleOrTypeChange(v)
  \/ \E v \in {<<>>, <<"d">>} : Editing /\ DescriptionChange(v)
  \/ \E v \in RateTexts : Editing /\ HourlyRateChange(v)
  \/ \E v \in RateTexts : Editing /\ StartingRateChange(v)
  \/ \E v \in RateTexts : Editing /\ TeamSizeChange(v)
  \/ \E v \in {<<"s">>} : Editing /\ ServiceInputChange(v)
  \/ Editing /\ handleAddService
  \/ \E outcome \in {Returns, Throws(TRUE, "Network down")} : handleSubmit(outcome)

SpecValidate == Init /\ [][NextValidate]_vars

NextNumberInput ==
  \/ \E type \in Kinds : KindClick(type)
  \/ \E v \in {<<>>, <<" ">>, <<" ", "a", " ">>} : Editing /\ NameChange(v)
  \/ \E v \in {<<>>, <<"t">>} : Editing /\ TitleOrTypeChange(v)
  \/ \E v \in {<<>>, <<"d">>} : Editing /\ DescriptionChange(v)
  \/ \E v \in NumberInputTexts : Editing /\ HourlyRateChange(v)
  \/ \E v \in NumberInputTexts : Editing /\ StartingRateChange(v)
  \/ \E v \in NumberInputTexts : Editing /\ TeamSizeChange(v)
  \/ \E v \in {<<"s">>} : Editing /\ ServiceInputChange(v)
  \/ Editing /\ handleAddService
  \/ \E outcome \in {Returns, Throws(TRUE, "Network down")} : handleSubmit(outcome)

SpecNumberInput == Init /\ [][NextNumberInput]_vars

(* The validation run of the last submit reported an error for field f. *)
Rejected(f) ==
  /\ lastOp = "submit_invalid"
  /\ f \in DOMAIN validationErrors
  /\ validationErrors[f] # ""

(* What the claims call a number, read off the text: an optional sign, then *)
(* digits with at most one decimal point.                                   *)
Unsigned(s) == IF s # <<>> /\ s[1] \in {"+", "-"} THEN Tail(s) ELSE s

IsNumeral(s) ==
  LET u == Unsigned(s)
  IN /\ \E i \in 1..Len(u) : u[i] \in Digits
     /\ \A i \in 1..Len(u) : u[i] \in Digits \cup {"."}
     /\ Cardinality({i \in 1..Len(u) : u[i] = "."}) <= 1

IsZero(s) == \A i \in 1..Len(s) : s[i] \in Digits => s[i] = "0"
IsPositive(s) == IsNumeral(s) /\ s[1] # "-" /\ ~IsZero(s)
IsNonNegative(s) == IsNumeral(s) /\ (s[1] # "-" \/ IsZero(s))
IsInteger(s) ==
  /\ IsNumeral(s)
  /\ \A i, j \in 1..Len(s) : (s[i] = "." /\ i < j) => s[j] = "0"

Blank(s) == \A i \in 1..Len(s) : s[i] \in WhiteSpace

C7_PricingErrorsByKind ==
  [][lastOp' \in SubmitOps =>
       IF kind = "talent"
       THEN /\ Rejected("hourlyRate")' <=> ~IsPositive(hourlyRate)
            /\ ~Rejected("startingRate")'
            /\ ~Rejected("teamSize")'
       ELSE /\ Rejected("startingRate")' <=> ~IsNonNegative(startingRate)
            /\ Rejected("teamSize")' <=> ~(IsInteger(teamSize) /\ IsPositive(teamSize))
            /\ ~Rejected("hourlyRate")']_vars

(* C8: for every kind and every value of the other fields, validate()      *)
(* reports an error for name exactly when name is empty after trimming.    *)
C8_NameErrorIffBlank ==
  [][lastOp' \in SubmitOps => (Rejected("name")' <=> Blank(name))]_vars

C8_Witness ==
  /\ Rejected("name")
  /\ name = <<" ">>
  /\ kind = "agency"
  /\ DOMAIN validationErrors = {"name"}

----------------------------------------------------------------------------
(* SpecServices: the service list up to its limit.  handleAddService       *)
(* compares texts with includes() only, so which unused text is typed does *)
(* not matter: the model types the unused texts of ServicePool in order,   *)
(* and beside them the empty and the blank text and, padded, the last      *)
(* entry of the list.  Entries are removed at the front, in the middle and *)
(* at the end, MaxRemovals times in a run.  The fields validateForm        *)
(* requires take one value each, so that a talent profile can be           *)
(* submitted; the rest is left to Spec.                                    *)

MaxRemovals == 1

ServicePool == <<"a", "b", "c", "d", "e", "f", "g", "h", "i", "j", "k", "l", "m">>
NumServiceTexts == 11

Fresh(list) ==
  LET unused == {i \in 1..NumServiceTexts : ~Includes(list, <<ServicePool[i]>>)}
  IN {<<ServicePool[i]>> : i \in {j \in unused : \A k \in unused : j <= k}}

Again(list) ==
  IF list = <<>> THEN {} ELSE {<<" ">> \o list[Len(list)] \o <<" ">>}

Typed(list) == {<<>>, <<" ">>} \cup Fresh(list) \cup Again(list)

RemovedAt(list) == {0, Len(list) \div 2, Len(list) - 1} \cap 0..(Len(list) - 1)

NextServices ==
  \/ \E v \in Typed(services) : Editing /\ ServiceInputChange(v)
  \/ Editing /\ handleAddService
  \/ \E index \in RemovedAt(services) :
       /\ Editing /\ removals < MaxRemovals
       /\ handleRemoveService(index)
       /\ removals' = removals + 1
  \/ \E type \in {"talent", "team"} : KindClick(type)
  \/ \E v \in {<<"n">>} : Editing /\ NameChange(v)
  \/ \E v \in {<<"t">>} : Editing /\ TitleOrTypeChange(v)
  \/ \E v \in {<<"d">>} : Editing /\ DescriptionChange(v)
  \/ \E v \in {<<"5">>} : Editing /\ HourlyRateChange(v)
  \/ \E outcome \in {Returns, Throws(FALSE, "")} : handleSubmit(outcome)
  \/ ClearClick

SpecServices == Init /\ [][NextServices]_vars

ServiceListWellFormed ==
  /\ Len(services) <= 10
  /\ \A i, j \in 1..Len(services) : services[i] = services[j] => i = j
  /\ \A i \in 1..Len(services) :
       /\ services[i] # <<>>
       /\ services[i][1] \notin WhiteSpace
       /\ services[i][Len(services[i])] \notin WhiteSpace

RejectedAddKeepsList ==
  (/\ lastOp' = "addService"
   /\ \/ Len(services) >= 10
      \/ Includes(services, Trim(serviceInput)))
    => services' = services

(* C9: in every reachable state the service list holds at most 10         *)
(* entries, pairwise distinct, each non-empty and trimmed; adding a text   *)
(* that is already present, or adding to a list of 10, leaves the list     *)
(* unchanged.                                                              *)
C9_ServiceListBounded == []ServiceListWellFormed /\ [][RejectedAddKeepsList]_vars

C9_Witness ==
  /\ lastOp = "addService"
  /\ Len(services) = 10
  /\ serviceInput = <<"k">>
  /\ ~Includes(services, serviceInput)

----------------------------------------------------------------------------
(* SpecUpload: the widget with reads that overlap.  Up to MaxPending reads *)
(* are in flight and complete in any order; the form around the widget is  *)
(* filled with one value per required field, submitted and cleared.        *)

NextUpload ==
  \/ \E file \in {Png, Jpeg, Pdf, Huge} : handleFile(file)
  \/ \E i \in 1..Len(readers) : ReaderOnload(i)
  \/ RemoveImageClick
  \/ \E v \in {<<"n">>} : Editing /\ NameChange(v)
  \/ \E v \in {<<"t">>} : Editing /\ TitleOrTypeChange(v)
  \/ \E v \in {<<"d">>} : Editing /\ DescriptionChange(v)
  \/ \E v \in {<<"5">>} : Editing /\ HourlyRateChange(v)
  \/ \E v \in {<<"s">>} : Editing /\ ServiceInputChange(v)
  \/ Editing /\ handleAddService
  \/ \E outcome \in {Returns, Throws(FALSE, "")} : handleSubmit(outcome)
  \/ ClearClick

SpecUpload == Init /\ [][NextUpload]_vars

(* C1: when several valid files are selected before their reads complete,  *)
(* then once all reads have completed the preview shown, and the pair last *)
(* reported through onFileSelect, are those of the selection started last, *)
(* whatever order the reads complete in.                                   *)
C1_LatestSelectionShown ==
  (readers = <<>> /\ latest # NoFile)
    => /\ preview = DataURL(latest)
       /\ reported = [file |-> latest, preview |-> DataURL(latest)]

(* The files of NextUpload, and the claims' own reading of a valid one. *)
UploadFiles == {Png, Jpeg, Pdf, Huge}

WithinLimits(file) ==
  /\ file.type \in {"image/jpeg", "image/png", "image/gif", "image/webp"}
  /\ file.size <= 5 * 1024 * 1024

NeverRead(file) ==
  /\ \A i \in 1..Len(readers) : readers[i] # file
  /\ reported.file # file
  /\ avatarFile # file

RejectedSelectKeepsPreview ==
  \A file \in UploadFiles :
    handleFile(file) =>
      IF WithinLimits(file)
      THEN uploadError' = NoMsg /\ readers' = Append(readers, file)
      ELSE /\ TruthyMsg(uploadError')
           /\ preview' = preview
           /\ readers' = readers
           /\ reported' = reported
           /\ avatarFields' = avatarFields

(* C11: selecting a file whose type is outside the four image types, or    *)
(* whose size exceeds 5 * 1024 * 1024 bytes, sets the widget error, leaves *)
(* the preview unchanged, starts no read and never reaches onFileSelect; a *)
(* file of exactly that size is not rejected.                              *)
C11_InvalidFileRejected ==
  /\ [](\A file \in UploadFiles : ~WithinLimits(file) => NeverRead(file))
  /\ [][RejectedSelectKeepsPreview]_vars

C11_Witness ==
  /\ lastOp = "select"
  /\ uploadError = "File size must be less than 5MB"
  /\ preview = DataURL(Jpeg)
  /\ reported.file = Jpeg
  /\ readers = <<>>

ValidSelectClearsError ==
  \A file \in UploadFiles :
    (handleFile(file) /\ WithinLimits(file))
      => /\ uploadError' = NoMsg
         /\ preview' = preview
         /\ reported' = reported

SingleReadReportsOnce ==
  \A file \in UploadFiles :
    (readers = <<file>> /\ lastOp' = "loaded")
      => /\ preview' = DataURL(file)
         /\ reported' = [file |-> file, preview |-> preview']
         /\ avatarFile' = file
         /\ avatarPreview' = preview'
         /\ readers' = <<>>

NoCallbackWithoutRead ==
  (readers = <<>> /\ lastOp' # "remove") => reported' = reported

(* C12: one selection of a valid file clears the widget error at once and, *)
(* when its read completes, sets the preview to the data URL of the file   *)
(* and calls onFileSelect once with the file and that data URL; with no    *)
(* read in flight nothing but Remove image calls onFileSelect again.       *)
C12_ValidFileShownAndReportedOnce ==
  [][ValidSelectClearsError /\ SingleReadReportsOnce /\ NoCallbackWithoutRead]_vars

C12_Witness ==
  /\ lastOp = "loaded"
  /\ readers = <<>>
  /\ uploadError = NoMsg
  /\ preview = DataURL(Png)
  /\ reported = [file |-> Png, preview |-> DataURL(Png)]
  /\ avatarFile = Png
  /\ avatarPreview = DataURL(Png)

(* C13: Remove image, offered once a selection has been shown, leaves the  *)
(* widget without a preview and calls onFileSelect(null, null), after      *)
(* which the form holds neither an avatar file nor an avatar preview.      *)
C13_RemoveClearsSelection ==
  [][lastOp' = "remove"
       => /\ Truthy(preview)
          /\ preview' = Null
          /\ reported' = [file |-> NoFile, preview |-> Null]
          /\ avatarFile' = NoFile
          /\ avatarPreview' = Null]_vars

C13_Witness ==
  /\ lastOp = "remove"
  /\ preview = Null
  /\ reported = [file |-> NoFile, preview |-> Null]
  /\ avatarFile = NoFile
  /\ services # <<>>
  /\ readers = <<>>

(* C14: after a submit that passed validation and whose onCreate returned, *)
(* the widget holds no preview, as the form holds no avatar file.          *)
C14_SubmitClearsWidgetPreview ==
  lastOp = "submit_ok" => (avatarFile = NoFile /\ preview = Null)

(* C15: a click on the button of kind k makes k the kind and empties the   *)
(* validation errors; the name, the title or type, the work location, the  *)
(* optional location, the three pricing texts, the description, the        *)
(* services, the service input and the avatar are what they were.          *)
C15_SetKindKeepsValues ==
  [][/\ \A k \in Kinds : KindClick(k) => kind' = k
     /\ lastOp' = "setKind"
          => /\ kind' \in Kinds
             /\ validationErrors' = NoErrors
             /\ <<name, titleOrType, workLocation, optionalLocation>>'
                  = <<name, titleOrType, workLocation, optionalLocation>>
             /\ <<hourlyRate, startingRate, teamSize, description>>'
                  = <<hourlyRate, startingRate, teamSize, description>>
             /\ <<services, serviceInput, avatarFile, avatarPreview>>'
                  = <<services, serviceInput, avatarFile, avatarPreview>>]_vars

C15_Witness ==
  /\ lastOp = "setKind"
  /\ kind = "team"
  /\ validationErrors = NoErrors
  /\ Trim(name) # <<>>
  /\ hourlyRate # <<>>
  /\ description = <<>>
  /\ services # <<>>
  /\ avatarFile # NoFile

----------------------------------------------------------------------------
(* SpecFieldErrors: the setters while validation errors are displayed.     *)
(* The six fields validateForm tests take an empty and a valid text each,  *)
(* in every state, so that a submit leaves any set of messages and the     *)
(* setters then run on it.                                                 *)

NextFieldErrors ==
  \/ \E type \in {"talent", "agency"} : KindClick(type)
  \/ \E v \in {<<>>, <<"n">>} : NameChange(v)
  \/ \E v \in {<<>>, <<"t">>} : TitleOrTypeChange(v)
  \/ \E v \in {<<>>, <<"d">>} : DescriptionChange(v)
  \/ \E v \in {<<>>, <<"5">>} : HourlyRateChange(v)
  \/ \E v \in {<<>>, <<"0">>} : StartingRateChange(v)
  \/ \E v \in {<<>>, <<"3">>} : TeamSizeChange(v)
  \/ \E v \in {<<"s">>} : ServiceInputChange(v)
  \/ handleAddService
  \/ \E outcome \in {Returns, Throws(TRUE, "Network down")} : handleSubmit(outcome)

SpecFieldErrors == Init /\ [][NextFieldErrors]_vars

Cells ==
  [kind |-> kind, name |-> name, titleOrType |-> titleOrType,
   workLocation |-> workLocation, optionalLocation |-> optionalLocation,
   hourlyRate |-> hourlyRate, startingRate |-> startingRate, teamSize |-> teamSize,
   description |-> description, services |-> services, serviceInput |-> serviceInput,
   avatarFile |-> avatarFile, avatarPreview |-> avatarPreview]

Shows(errors, f) == f \in DOMAIN errors /\ errors[f] # ""

ClearsErrorOf(f) ==
  Shows(validationErrors, f)
    => /\ ~Shows(validationErrors', f)
       /\ \A g \in (DOMAIN validationErrors \cup DOMAIN validationErrors') \ {f} :
            /\ g \in DOMAIN validationErrors \cap DOMAIN validationErrors'
            /\ validationErrors'[g] = validationErrors[g]
       /\ \A g \in DOMAIN Cells \ {f} : Cells'[g] = Cells[g]

(* C16: a setter of a field that shows a validation error clears the error *)
(* of that field only: every other field's error is what it was before,   *)
(* and every other field's value is unchanged.                             *)
C16_SetFieldClearsOwnError ==
  [][/\ NameChange(name') => ClearsErrorOf("name")
     /\ TitleOrTypeChange(titleOrType') => ClearsErrorOf("titleOrType")
     /\ DescriptionChange(description') => ClearsErrorOf("description")
     /\ HourlyRateChange(hourlyRate') => ClearsErrorOf("hourlyRate")
     /\ StartingRateChange(startingRate') => ClearsErrorOf("startingRate")
     /\ TeamSizeChange(teamSize') => ClearsErrorOf("teamSize")]_vars

C16_Witness ==
  /\ lastOp = "setField"
  /\ name = <<"n">>
  /\ DOMAIN validationErrors = {"name", "description", "services"}
  /\ validationErrors["name"] = ""
  /\ validationErrors["description"] = "Description is required"
  /\ validationErrors["services"] = "Add at least one service"

(* C17: in every reachable state the form holds an avatar file and an      *)
(* avatar preview, or neither, however reads complete and whenever Remove  *)
(* image, submit and Clear run between them.                               *)
C17_AvatarFileAndPreviewTogether ==
  (avatarFile = NoFile) <=> (avatarPreview = Null)

C17_Witness ==
  /\ avatarFile = Png
  /\ avatarPreview = DataURL(Png)
  /\ preview = DataURL(Png)
  /\ readers = <<Jpeg>>
  /\ lastOp = "clear"

----------------------------------------------------------------------------
(* SpecDescription: descriptions around the 500 characters the counter     *)
(* under the textarea names.  The textarea has no maxLength, so it takes   *)
(* a text of any length; the model types texts of 1, 500 and 501           *)
(* characters, and one of 500 characters followed by a space.              *)

DESCRIPTION_LIMIT == 500

Repeat(c, n) == [i \in 1..n |-> c]

DescriptionTexts ==
  {<<>>, <<"d">>,
   Repeat("d", DESCRIPTION_LIMIT),
   Repeat("d", DESCRIPTION_LIMIT) \o <<" ">>,
   Repeat("d", DESCRIPTION_LIMIT + 1)}

NextDescription ==
  \/ \E type \in {"talent", "team"} : KindClick(type)
  \/ \E v \in {<<>>, <<"n">>} : Editing /\ NameChange(v)
  \/ \E v \in {<<>>, <<"t">>} : Editing /\ TitleOrTypeChange(v)
  \/ \E v \in DescriptionTexts : Editing /\ DescriptionChange(v)
  \/ \E v \in {<<"5">>} : Editing /\ HourlyRateChange(v)
  \/ \E v \in {<<"0">>} : Editing /\ StartingRateChange(v)
  \/ \E v \in {<<"3">>} : Editing /\ TeamSizeChange(v)
  \/ \E v \in {<<"s">>} : Editing /\ ServiceInputChange(v)
  \/ Editing /\ handleAddService
  \/ \E outcome \in {Returns, Throws(TRUE, "Network down")} : handleSubmit(outcome)

SpecDescription == Init /\ [][NextDescription]_vars

(* C18: every draft handed to onCreate has a description of at most 500    *)
(* characters.                                                             *)
C18_DescriptionAtMostLimit ==
  \A i \in 1..Len(calls) : Len(calls[i].provider.description) <= 500

----------------------------------------------------------------------------
(* SpecDraft: the object handed to onCreate.  The texts handleSubmit trims *)
(* carry white space at either end and inside, the optional location is    *)
(* empty, blank or padded, and an image is selected, removed and selected  *)
(* again before the form is submitted.                                     *)

NextDraft ==
  \/ \E type \in {"talent", "agency"} : KindClick(type)
  \/ \E v \in {<<" ", "a", " ">>} : Editing /\ NameChange(v)
  \/ \E v \in {<<"t", " ">>} : Editing /\ TitleOrTypeChange(v)
  \/ \E loc \in {"remote", "on-site"} : Editing /\ WorkLocationClick(loc)
  \/ \E v \in {<<>>, <<" ">>, <<" ", "k">>} : Editing /\ OptionalLocationChange(v)
  \/ \E v \in {<<"5">>} : Editing /\ HourlyRateChange(v)
  \/ \E v \in {<<"0">>} : Editing /\ StartingRateChange(v)
  \/ \E v \in {<<"3">>} : Editing /\ TeamSizeChange(v)
  \/ \E v \in {<<" ", "d", " ", "e", " ">>} : Editing /\ DescriptionChange(v)
  \/ \E v \in {<<"s">>, <<"r">>} : Editing /\ ServiceInputChange(v)
  \/ Editing /\ handleAddService
  \/ \E file \in {Png, Jpeg} : Editing /\ readers = <<>> /\ handleFile(file)
  \/ \E i \in 1..Len(readers) : ReaderOnload(i)
  \/ RemoveImageClick
  \/ \E outcome \in {Returns, Throws(TRUE, "Network down")} : handleSubmit(outcome)

SpecDraft == Init /\ [][NextDraft]_vars

(* r is s without the white space at its two ends, said on the characters. *)
IsTrimOf(r, s) ==
  \E lo \in 0..Len(s) : \E hi \in lo..Len(s) :
    /\ r = SubSeq(s, lo + 1, hi)
    /\ \A i \in (1..lo) \cup ((hi + 1)..Len(s)) : s[i] \in WhiteSpace
    /\ r # <<>> => (r[1] \notin WhiteSpace /\ r[Len(r)] \notin WhiteSpace)

DraftFromFields ==
  (lastOp' \in SubmitOps /\ DOMAIN validateForm = {})
    => /\ Len(calls') = 1
       /\ calls'[1].kind = kind
       /\ LET p == calls'[1].provider
          IN /\ IsTrimOf(p.name, name)
             /\ IsTrimOf(p.title_or_type, titleOrType)
             /\ IsTrimOf(p.description, description)
             /\ IF Blank(optionalLocation)
                THEN p.optional_location = Null
                ELSE IsTrimOf(p.optional_location, optionalLocation)
             /\ p.work_location = workLocation
             /\ p.status = "draft"
             /\ p.services = services
             /\ p.avatar_file = avatarFile
             /\ avatarFile \in {reported.file, NoFile}

(* C19: a submit that passes validation calls onCreate once, with the      *)
(* current kind and a draft built from the fields as they are: name, title *)
(* or type and description trimmed, an optional location that is blank     *)
(* mapped to null, status "draft", the current services, and as avatar the *)
(* file last reported through onFileSelect, or null if none or cleared.    *)
C19_DraftBuiltFromFields == [][DraftFromFields]_vars

C19_Witness ==
  /\ lastOp = "submit_failed"
  /\ Len(calls) = 1
  /\ calls[1].kind = "agency"
  /\ calls[1].provider.name = <<"a">>
  /\ calls[1].provider.description = <<"d", " ", "e">>
  /\ optionalLocation = <<" ">>
  /\ calls[1].provider.optional_location = Null
  /\ calls[1].provider.avatar_file = Jpeg
  /\ calls[1].provider.services = <<<<"r">>, <<"s">>>>

----------------------------------------------------------------------------
(* SpecRemove: handleRemoveService on lists of up to NumRemoveTexts        *)
(* entries, added in any order.  The Remove buttons pass the positions of  *)
(* the list they were rendered from; the handler is also applied to the    *)
(* indexes just outside the list, -1 and those from Len(services) on.      *)

NumRemoveTexts == 3

NextRemove ==
  \/ \E i \in 1..NumRemoveTexts : ServiceInputChange(<<ServicePool[i]>>)
  \/ handleAddService
  \/ \E index \in -1..(Len(services) + 1) :
       handleRemoveService(index) /\ UNCHANGED removals
  \/ \E type \in {"talent", "team"} : KindClick(type)

SpecRemove == Init /\ [][NextRemove]_vars

RemovesEntryAt ==
  \A index \in -1..(Len(services) + 1) :
    handleRemoveService(index) =>
      IF index \in 0..(Len(services) - 1)
      THEN /\ Len(services') = Len(services) - 1
           /\ \A j \in 1..index : services'[j] = services[j]
           /\ \A j \in (index + 1)..(Len(services) - 1) : services'[j] = services[j + 1]
      ELSE services' = services

(* C20: removing at a position i inside the list removes the entry at i    *)
(* and nothing else, the entries before and after it keeping their order;  *)
(* removing at an index outside the list leaves the list unchanged.        *)
C20_RemoveServiceAtIndex == [][RemovesEntryAt]_vars

C20_Witness ==
  /\ lastOp = "removeService"
  /\ services = <<<<"c">>, <<"a">>>>
  /\ serviceInput = <<"b">>

----------------------------------------------------------------------------
(* SpecAdd: handleAddService up to the limit of the list, with validation  *)
(* errors displayed or not.  The texts are those of SpecServices; the      *)
(* service input and the Add button are used in every state, also after a  *)
(* submit left its messages, and the fields validateForm requires take one *)
(* value each.                                                             *)

NextAdd ==
  \/ \E v \in Typed(services) : ServiceInputChange(v)
  \/ handleAddService
  \/ \E type \in {"talent", "team"} : KindClick(type)
  \/ \E v \in {<<"n">>} : Editing /\ NameChange(v)
  \/ \E v \in {<<"t">>} : Editing /\ TitleOrTypeChange(v)
  \/ \E v \in {<<"d">>} : Editing /\ DescriptionChange(v)
  \/ \E v \in {<<"5">>} : Editing /\ HourlyRateChange(v)
  \/ \E outcome \in {Returns, Throws(TRUE, "Network down")} : handleSubmit(outcome)

SpecAdd == Init /\ [][NextAdd]_vars

AddAppendsOrKeeps ==
  lastOp' = "addService"
    => /\ IF /\ ~Blank(serviceInput)
             /\ \A i \in 1..Len(services) : ~IsTrimOf(services[i], serviceInput)
             /\ Len(services) < 10
          THEN /\ Len(services') = Len(services) + 1
               /\ SubSeq(services', 1, Len(services)) = services
               /\ IsTrimOf(services'[Len(services')], serviceInput)
               /\ serviceInput' = <<>>
          ELSE /\ services' = services
               /\ serviceInput' = serviceInput
       /\ validationErrors' = validationErrors
       /\ error' = error
       /\ \A g \in DOMAIN Cells \ {"services", "serviceInput"} : Cells'[g] = Cells[g]

(* C21: an accepted add appends the trimmed text at the end of the list,   *)
(* the entries before it and their order unchanged, and empties the        *)
(* service input; a rejected add (text empty after trimming, already in    *)
(* the list, or list of 10) changes neither the list nor the input; in     *)
(* both cases the validation errors and every other field are unchanged.   *)
C21_AddServiceAppendsOrKeeps == [][AddAppendsOrKeeps]_vars

C21_Witness ==
  /\ lastOp = "addService"
  /\ Len(services) = 2
  /\ serviceInput = <<>>
  /\ Shows(validationErrors, "services")
  /\ Shows(validationErrors, "name")

(* C22: once the avatar has been cleared, the widget preview and the       *)
(* form's avatar file stay absent until a new selection is initiated: a    *)
(* read started before the clearing does not bring them back when it       *)
(* completes.  Stated for the clearing by Remove image, after which latest *)
(* is NoFile until handleFile starts the next read.                        *)
C22_ClearedAvatarStaysAbsent ==
  latest = NoFile => (preview = Null /\ avatarFile = NoFile)

====
